---- MODULE Spec2Model ----
(***************************************************************************)
(* Model of spatial_hash_grid.py: the Client record and the                *)
(* SpatialHashGrid index (new_client, insert_client, find_nearby,          *)
(* update_client, delete_client, get_cell_range, get_cell_key).            *)
(*                                                                         *)
(* Client objects live in `heap`; an object's identity is its index in     *)
(* heap.  A Python set of Clients is a set of entries [obj, hash]: the     *)
(* object and the hash stored for it when it was added.  Set lookups match *)
(* an entry when the stored hash equals the hash of the key and the entry  *)
(* is the key itself or compares equal to it (Client.__eq__).              *)
(*                                                                         *)
(* Coordinates are integers.  dimensions / 2 is carried exactly by working *)
(* in half units; the configurations are chosen so that cell_width() and   *)
(* cell_height() are exactly representable floats.                         *)
(***************************************************************************)
EXTENDS Integers, Sequences, FiniteSets, TLC

\* Number of Client objects that may be constructed in one run.
MaxClients == 2

\* Python's None for Client.indices (falsy, like the empty tuple).
None == <<>>

\* Inputs drawn by the operations.  With the test configuration (cells of
\* 10 x 10) a client of dimensions (5, 10) at (0, 5) covers the cells
\* -1..0 x 0..1, reaching outside the world, and at (25, 25) the cells
\* 2..2 x 2..3; a client of dimensions (0, 0) covers one cell.
PosSet == {<<0, 5>>, <<25, 25>>}

\* The (dimensions, name) pairs clients are created with: two clients of a
\* kind at one position are equal and hash alike, the first two kinds make
\* equal clients of different hashes, the third is a zero-size object.
KindSet == {<<<<5, 10>>, "a">>, <<<<5, 10>>, "b">>, <<<<0, 0>>, "a">>}
DimSet == {k[1] : k \in KindSet}

\* Search windows: those find_nearby is called with, and those the
\* properties are stated over (the last one covers 3 x 3 cells).
QueryDimSet == {<<5, 10>>}
WindowSet == DimSet \cup {<<20, 20>>}

\* setUp of the test suite: bounds [(0, 100), (0, 100)], dimensions (10, 10).
TestConfig == [bounds |-> <<<<0, 100>>, <<0, 100>>>>, dimensions |-> <<10, 10>>]

\* Arguments handed to SpatialHashGrid(bounds, dimensions), valid and not.
ConfigSet ==
    { TestConfig,
      [bounds |-> <<<<0, 0>>, <<0, 100>>>>, dimensions |-> <<10, 10>>],
      [bounds |-> <<<<0, 100>>, <<50, 50>>>>, dimensions |-> <<10, 10>>],
      [bounds |-> <<<<100, 0>>, <<0, 100>>>>, dimensions |-> <<10, 10>>],
      [bounds |-> <<<<0, 100>>, <<0, 100>>>>, dimensions |-> <<0, 10>>],
      [bounds |-> <<<<0, 100>>, <<0, 100>>>>, dimensions |-> <<10, -10>>] }

VARIABLES
    constructed,  \* TRUE once SpatialHashGrid.__init__ has returned
    bounds,       \* self.bounds
    dimensions,   \* self.dimensions
    cell_map,     \* self.cell_map: key -> set of entries
    heap,         \* the Client objects constructed so far
    call          \* the last call: operation, arguments, outcome

vars == <<constructed, bounds, dimensions, cell_map, heap, call>>

----------------------------------------------------------------------------
\* Client

\* Client.__init__
Client(position, dims, name) ==
    [position |-> position, dimensions |-> dims, name |-> name, indices |-> None]

\* __eq__ comparing the name as well as position and dimensions.
ClientEq_byname(a, b) ==
    a.position = b.position /\ a.dimensions = b.dimensions /\ a.name = b.name

\* Client.__eq__ (both operands are Clients)
ClientEq(a, b) == a.position = b.position /\ a.dimensions = b.dimensions

\* Client.__hash__: the hash of the tuple, taken as collision free
ClientHash(c) == <<c.position, c.dimensions, c.name>>

\* `not client.indices`
NoIndices(c) == Len(c.indices) = 0

----------------------------------------------------------------------------
\* Python set of Client objects

\* The entry a lookup of object id finds in set s: same stored hash, and the
\* same object or an equal one.
SetMatches(s, hp, id) ==
    { e \in s : e.hash = ClientHash(hp[id])
                /\ (e.obj = id \/ ClientEq(hp[e.obj], hp[id])) }

\* set.add(client)
SetAdd(s, hp, id) ==
    IF SetMatches(s, hp, id) # {} THEN s
    ELSE s \cup {[obj |-> id, hash |-> ClientHash(hp[id])]}

\* set.discard(client)
SetDiscard(s, hp, id) ==
    LET m == SetMatches(s, hp, id)
    IN  IF m = {} THEN s ELSE s \ {CHOOSE e \in m : TRUE}

\* nearby.update(bucket): entries keep their stored hash
SetUpdate(s, hp, bucket) ==
    s \cup { e \in bucket :
               ~ \E f \in s : f.hash = e.hash
                              /\ (f.obj = e.obj \/ ClientEq(hp[f.obj], hp[e.obj])) }

----------------------------------------------------------------------------
\* Cell arithmetic

\* Division truncating toward zero, as int(a / b) would.
FloorDiv_trunc(a, b) ==
    LET aa == IF a < 0 THEN 0 - a ELSE a
        bb == IF b < 0 THEN 0 - b ELSE b
    IN IF (a < 0) # (b < 0) THEN 0 - (aa \div bb) ELSE aa \div bb

\* a // b on exact values, b # 0 (floor, also for negative operands)
FloorDiv(a, b) == IF b > 0 THEN a \div b ELSE (0 - a) \div (0 - b)

\* cell_width() / cell_height() raise, or the floor division by them raises
AxisRaises(bd, n) == n = 0 \/ bd[2] - bd[1] = 0

\* AxisCell of the centre alone: the half extent is left out.
AxisCell_centre(p, d, sign, bd, n) ==
    FloorDiv((2 * p - 2 * bd[1]) * n, 2 * (bd[2] - bd[1]))

\* int((p + sign * d / 2 - bounds_min) // cell_size), cell_size = span / n
AxisCell(p, d, sign, bd, n) ==
    FloorDiv((2 * p + sign * d - 2 * bd[1]) * n, 2 * (bd[2] - bd[1]))

\* get_cell_range raises ZeroDivisionError
RangeRaises(bds, dms) == AxisRaises(bds[1], dms[1]) \/ AxisRaises(bds[2], dms[2])

\* get_cell_range with the low cell taken one cell lower on each axis.
get_cell_range_padded(bds, dms, position, dims) ==
    << << AxisCell(position[1], dims[1], -1, bds[1], dms[1]) - 1,
          AxisCell(position[2], dims[2], -1, bds[2], dms[2]) - 1 >>,
       << AxisCell(position[1], dims[1], 1, bds[1], dms[1]),
          AxisCell(position[2], dims[2], 1, bds[2], dms[2]) >> >>

\* get_cell_range
get_cell_range(bds, dms, position, dims) ==
    << << AxisCell(position[1], dims[1], -1, bds[1], dms[1]),
          AxisCell(position[2], dims[2], -1, bds[2], dms[2]) >>,
       << AxisCell(position[1], dims[1], 1, bds[1], dms[1]),
          AxisCell(position[2], dims[2], 1, bds[2], dms[2]) >> >>

\* str(n) for an integer
Digits == <<"0", "1", "2", "3", "4", "5", "6", "7", "8", "9">>

RECURSIVE NatStr(_)
NatStr(n) == IF n < 10 THEN Digits[n + 1]
             ELSE NatStr(n \div 10) \o Digits[(n % 10) + 1]

IntStr(n) == IF n < 0 THEN "-" \o NatStr(0 - n) ELSE NatStr(n)

\* get_cell_key: f"{x}.{y}"
get_cell_key(x, y) == IntStr(x) \o "." \o IntStr(y)

\* The cells visited by
\*   for x in range(min_cell[0], max_cell[0] + 1):
\*       for y in range(min_cell[1], max_cell[1] + 1):
\* in loop order.
CellLoop(rng) ==
    LET w == rng[2][1] - rng[1][1] + 1
        h == rng[2][2] - rng[1][2] + 1
    IN  IF w <= 0 \/ h <= 0 THEN <<>>
        ELSE [i \in 1..(w * h) |->
                <<rng[1][1] + ((i - 1) \div h), rng[1][2] + ((i - 1) % h)>>]

----------------------------------------------------------------------------
\* SpatialHashGrid

\* if key not in self.cell_map: self.cell_map[key] = set()
\* self.cell_map[key].add(client)
BucketAdd(cm, key, hp, id) ==
    [k \in DOMAIN cm \cup {key} |->
        IF k = key
        THEN SetAdd(IF key \in DOMAIN cm THEN cm[key] ELSE {}, hp, id)
        ELSE cm[k]]

\* BucketDiscard without `del self.cell_map[key]`: the emptied bucket stays.
BucketDiscard_keep(cm, key, hp, id) ==
    IF key \notin DOMAIN cm THEN cm
    ELSE [cm EXCEPT ![key] = SetDiscard(cm[key], hp, id)]

\* if key in self.cell_map:
\*     self.cell_map[key].discard(client)
\*     if not self.cell_map[key]: del self.cell_map[key]
BucketDiscard(cm, key, hp, id) ==
    IF key \notin DOMAIN cm THEN cm
    ELSE LET s == SetDiscard(cm[key], hp, id)
         IN  IF s = {} THEN [k \in DOMAIN cm \ {key} |-> cm[k]]
             ELSE [cm EXCEPT ![key] = s]

\* The loop of insert_client from its i-th cell on.
RECURSIVE InsertLoop(_, _, _, _, _)
InsertLoop(cm, cells, i, hp, id) ==
    IF i > Len(cells) THEN cm
    ELSE InsertLoop(BucketAdd(cm, get_cell_key(cells[i][1], cells[i][2]), hp, id),
                    cells, i + 1, hp, id)

\* The loop of delete_client from its i-th cell on.
RECURSIVE DeleteLoop(_, _, _, _, _)
DeleteLoop(cm, cells, i, hp, id) ==
    IF i > Len(cells) THEN cm
    ELSE DeleteLoop(BucketDiscard(cm, get_cell_key(cells[i][1], cells[i][2]), hp, id),
                    cells, i + 1, hp, id)

\* The loop of find_nearby from its i-th cell on.
RECURSIVE NearbyLoop(_, _, _, _, _)
NearbyLoop(nearby, cm, cells, i, hp) ==
    IF i > Len(cells) THEN nearby
    ELSE LET key == get_cell_key(cells[i][1], cells[i][2])
         IN  NearbyLoop(IF key \in DOMAIN cm THEN SetUpdate(nearby, hp, cm[key])
                        ELSE nearby,
                        cm, cells, i + 1, hp)

\* insert_client caching (min_cell, min_cell) instead of (min_cell, max_cell).
insert_client_mincell(cm, hp, id, bds, dms) ==
    LET rng == get_cell_range(bds, dms, hp[id].position, hp[id].dimensions)
        hp1 == [hp EXCEPT ![id].indices = <<rng[1], rng[1]>>]
    IN  [cell_map |-> InsertLoop(cm, CellLoop(rng), 1, hp1, id), heap |-> hp1]

\* insert_client on a grid where get_cell_range does not raise:
\* the cell map and the heap it leaves.
insert_client(cm, hp, id, bds, dms) ==
    LET rng == get_cell_range(bds, dms, hp[id].position, hp[id].dimensions)
        hp1 == [hp EXCEPT ![id].indices = rng]
    IN  [cell_map |-> InsertLoop(cm, CellLoop(rng), 1, hp1, id), heap |-> hp1]

\* delete_client looping over range(min, max) instead of range(min, max + 1).
delete_client_exclusive(cm, hp, id) ==
    IF NoIndices(hp[id]) THEN [cell_map |-> cm, heap |-> hp]
    ELSE LET rng == hp[id].indices
             cut == <<rng[1], <<rng[2][1] - 1, rng[2][2] - 1>>>>
         IN  [cell_map |-> DeleteLoop(cm, CellLoop(cut), 1, hp, id),
              heap |-> [hp EXCEPT ![id].indices = None]]

\* delete_client falling back on the range of the current position when the
\* record has no cached range, instead of returning.
delete_client_recompute(cm, hp, id) ==
    LET rng == IF NoIndices(hp[id])
               THEN get_cell_range(bounds, dimensions, hp[id].position,
                                   hp[id].dimensions)
               ELSE hp[id].indices
    IN  [cell_map |-> DeleteLoop(cm, CellLoop(rng), 1, hp, id),
         heap |-> [hp EXCEPT ![id].indices = None]]

\* delete_client: the cell map and the heap it leaves.
delete_client(cm, hp, id) ==
    IF NoIndices(hp[id]) THEN [cell_map |-> cm, heap |-> hp]
    ELSE [cell_map |-> DeleteLoop(cm, CellLoop(hp[id].indices), 1, hp, id),
          heap |-> [hp EXCEPT ![id].indices = None]]

\* The set `nearby` built by find_nearby, as the objects it holds.
find_nearby(cm, hp, bds, dms, position, dims) ==
    { e.obj : e \in NearbyLoop({}, cm, CellLoop(get_cell_range(bds, dms, position, dims)),
                               1, hp) }

\* list(nearby): the elements in some order
ListsOf(S) ==
    { s \in [1..Cardinality(S) -> S] : \A x \in S : \E i \in DOMAIN s : s[i] = x }

----------------------------------------------------------------------------
\* The calls

\* What is recorded of a call: pre is <<the client as it was on entry>> for
\* update_client and delete_client, result is the list find_nearby returned,
\* raised names the exception that left the call, "" for none.
Call(op, client, position, dims, pre, result, raised) ==
    [op |-> op, client |-> client, position |-> position, dimensions |-> dims,
     pre |-> pre, result |-> result, raised |-> raised]

NoCall == Call("", 0, <<0, 0>>, <<0, 0>>, <<>>, <<>>, "")

\* SpatialHashGrid.__init__
Construct(cfg) ==
    /\ ~constructed
    /\ constructed' = TRUE
    /\ bounds' = cfg.bounds
    /\ dimensions' = cfg.dimensions
    /\ cell_map' = <<>>
    /\ call' = Call("__init__", 0, <<0, 0>>, <<0, 0>>, <<>>, <<>>, "")
    /\ UNCHANGED heap

\* Client(position, dimensions, name) built by the caller, not inserted.
MakeClient(position, dims, name) ==
    /\ Len(heap) < MaxClients
    /\ heap' = Append(heap, Client(position, dims, name))
    /\ call' = Call("Client", Len(heap) + 1, position, dims, <<>>, <<>>, "")
    /\ UNCHANGED <<constructed, bounds, dimensions, cell_map>>

\* new_client
NewClient(position, dims, name) ==
    /\ constructed
    /\ Len(heap) < MaxClients
    /\ IF RangeRaises(bounds, dimensions)
       THEN /\ call' = Call("new_client", 0, position, dims, <<>>, <<>>,
                            "ZeroDivisionError")
            /\ UNCHANGED <<cell_map, heap>>
       ELSE LET id == Len(heap) + 1
                r == insert_client(cell_map, Append(heap, Client(position, dims, name)),
                                   id, bounds, dimensions)
            IN  /\ cell_map' = r.cell_map
                /\ heap' = r.heap
                /\ call' = Call("new_client", id, position, dims, <<>>, <<>>, "")
    /\ UNCHANGED <<constructed, bounds, dimensions>>

\* update_client without its delete_client call: the record is reinserted
\* while still in the buckets of its old range.
UpdateClient_nodelete(id, new_position) ==
    /\ constructed
    /\ id \in DOMAIN heap
    /\ ~RangeRaises(bounds, dimensions)
    /\ LET hp1 == [heap EXCEPT ![id].position = new_position]
           r == insert_client(cell_map, hp1, id, bounds, dimensions)
       IN  /\ cell_map' = r.cell_map
           /\ heap' = r.heap
           /\ call' = Call("update_client", id, new_position, heap[id].dimensions,
                           <<heap[id]>>, <<>>, "")
    /\ UNCHANGED <<constructed, bounds, dimensions>>

\* update_client assigning the new position before its delete_client call:
\* the record is looked up in its old buckets under its new hash.
UpdateClient_assignfirst(id, new_position) ==
    /\ constructed
    /\ id \in DOMAIN heap
    /\ ~RangeRaises(bounds, dimensions)
    /\ LET hp1 == [heap EXCEPT ![id].position = new_position]
           d == delete_client(cell_map, hp1, id)
           r == insert_client(d.cell_map, d.heap, id, bounds, dimensions)
       IN  /\ cell_map' = r.cell_map
           /\ heap' = r.heap
           /\ call' = Call("update_client", id, new_position, heap[id].dimensions,
                           <<heap[id]>>, <<>>, "")
    /\ UNCHANGED <<constructed, bounds, dimensions>>

\* update_client
UpdateClient(id, new_position) ==
    /\ constructed
    /\ id \in DOMAIN heap
    /\ LET d == delete_client(cell_map, heap, id)
           hp1 == [d.heap EXCEPT ![id].position = new_position]
       IN  IF RangeRaises(bounds, dimensions)
           THEN /\ cell_map' = d.cell_map
                /\ heap' = hp1
                /\ call' = Call("update_client", id, new_position, heap[id].dimensions,
                                <<heap[id]>>, <<>>, "ZeroDivisionError")
           ELSE LET r == insert_client(d.cell_map, hp1, id, bounds, dimensions)
                IN  /\ cell_map' = r.cell_map
                    /\ heap' = r.heap
                    /\ call' = Call("update_client", id, new_position,
                                    heap[id].dimensions, <<heap[id]>>, <<>>, "")
    /\ UNCHANGED <<constructed, bounds, dimensions>>

\* delete_client
DeleteClient(id) ==
    /\ constructed
    /\ id \in DOMAIN heap
    /\ LET d == delete_client(cell_map, heap, id)
       IN  /\ cell_map' = d.cell_map
           /\ heap' = d.heap
           /\ call' = Call("delete_client", id, heap[id].position, heap[id].dimensions,
                           <<heap[id]>>, <<>>, "")
    /\ UNCHANGED <<constructed, bounds, dimensions>>

\* find_nearby
FindNearby(position, dims) ==
    /\ constructed
    /\ IF RangeRaises(bounds, dimensions)
       THEN call' = Call("find_nearby", 0, position, dims, <<>>, <<>>,
                         "ZeroDivisionError")
       ELSE \E lst \in ListsOf(find_nearby(cell_map, heap, bounds, dimensions,
                                           position, dims)) :
               call' = Call("find_nearby", 0, position, dims, <<>>, lst, "")
    /\ UNCHANGED <<constructed, bounds, dimensions, cell_map, heap>>

----------------------------------------------------------------------------
\* Specifications

DoMakeClient == \E p \in PosSet, k \in KindSet : MakeClient(p, k[1], k[2])
DoNewClient == \E p \in PosSet, k \in KindSet : NewClient(p, k[1], k[2])
DoUpdateClient == \E id \in DOMAIN heap, p \in PosSet : UpdateClient(id, p)
DoDeleteClient == \E id \in DOMAIN heap : DeleteClient(id)
DoFindNearby == \E p \in PosSet, d \in QueryDimSet : FindNearby(p, d)
DoConstruct == \E cfg \in ConfigSet : Construct(cfg)

\* A grid constructed as in the test suite's setUp.
Init ==
    /\ constructed = TRUE
    /\ bounds = TestConfig.bounds
    /\ dimensions = TestConfig.dimensions
    /\ cell_map = <<>>
    /\ heap = <<>>
    /\ call = NoCall

\* Any sequence of new_client, update_client, delete_client and find_nearby
\* calls on one grid.
Next ==
    \/ DoNewClient
    \/ DoUpdateClient
    \/ DoDeleteClient
    \/ DoFindNearby

Spec == Init /\ [][Next]_vars

\* The caller also builds Client objects itself and hands them to the grid.
NextRaw ==
    \/ DoMakeClient
    \/ DoNewClient
    \/ DoUpdateClient
    \/ DoDeleteClient
    \/ DoFindNearby

SpecRaw == Init /\ [][NextRaw]_vars

\* The caller constructs the grid with arguments of its choice.
InitCfg ==
    /\ constructed = FALSE
    /\ bounds = <<>>
    /\ dimensions = <<>>
    /\ cell_map = <<>>
    /\ heap = <<>>
    /\ call = NoCall

NextCfg ==
    \/ DoConstruct
    \/ DoMakeClient
    \/ DoNewClient
    \/ DoUpdateClient
    \/ DoDeleteClient
    \/ DoFindNearby

SpecCfg == InitCfg /\ [][NextCfg]_vars

\* The example scenario: on the test grid A is registered at (50, 50) with
\* extent (10, 10), then B at (10, 10) with extent (5, 5); windows of
\* (10, 10) are searched, records are repositioned and deleted.
ExQuerySet == {<<50, 50>>, <<22, 22>>, <<10, 10>>}
ExMoveSet == {<<10, 10>>, <<50, 50>>}

ExRegisterA == Len(heap) = 0 /\ NewClient(<<50, 50>>, <<10, 10>>, "A")
ExRegisterB == Len(heap) = 1 /\ NewClient(<<10, 10>>, <<5, 5>>, "B")
ExQuery == \E p \in ExQuerySet : FindNearby(p, <<10, 10>>)
ExReposition == \E id \in DOMAIN heap, p \in ExMoveSet : UpdateClient(id, p)
ExDelete == \E id \in DOMAIN heap : DeleteClient(id)

NextEx ==
    \/ ExRegisterA
    \/ ExRegisterB
    \/ ExQuery
    \/ ExReposition
    \/ ExDelete

SpecEx == Init /\ [][NextEx]_vars

\* The coordinate transform on its own: a grid of one of two configurations
\* with exactly representable cell sizes (10 x 10 on the test grid; 10 x 5 on
\* a grid whose lower bounds are not 0), get_cell_range called on any centre
\* and extent, and one record registered.
RangeConfigSet ==
    {TestConfig,
     [bounds |-> <<<<-20, 20>>, <<10, 50>>>>, dimensions |-> <<4, 8>>]}
RangePosSet == {<<x, y>> : x \in {-1, 0, 18, 20, 25}, y \in {5, 20}}
RangeDimSet == {<<w, h>> : w \in {0, 1, 10}, h \in {0, 10}}

\* SpatialHashGrid.get_cell_range called by the caller
GetCellRange(position, dims) ==
    /\ constructed
    /\ call' = Call("get_cell_range", 0, position, dims, <<>>,
                    get_cell_range(bounds, dimensions, position, dims), "")
    /\ UNCHANGED <<constructed, bounds, dimensions, cell_map, heap>>

DoGetCellRange == \E p \in RangePosSet, d \in RangeDimSet : GetCellRange(p, d)
RangeRegister ==
    /\ Len(heap) = 0
    /\ \E p \in RangePosSet, d \in RangeDimSet : NewClient(p, d, "a")

InitRange ==
    /\ constructed = TRUE
    /\ \E cfg \in RangeConfigSet :
          bounds = cfg.bounds /\ dimensions = cfg.dimensions
    /\ cell_map = <<>>
    /\ heap = <<>>
    /\ call = NoCall

NextRange ==
    \/ DoGetCellRange
    \/ RangeRegister

SpecRange == InitRange /\ [][NextRange]_vars

\* The caller holds the records new_client returned and may assign their
\* position field itself (`client.position = p`), as update_client does.
MutatePosition(id, new_position) ==
    /\ constructed
    /\ id \in DOMAIN heap
    /\ new_position # heap[id].position
    /\ heap' = [heap EXCEPT ![id].position = new_position]
    /\ call' = Call("set_position", id, new_position, heap[id].dimensions,
                    <<heap[id]>>, <<>>, "")
    /\ UNCHANGED <<constructed, bounds, dimensions, cell_map>>

DoMutatePosition == \E id \in DOMAIN heap, p \in PosSet : MutatePosition(id, p)

NextMut ==
    \/ DoNewClient
    \/ DoUpdateClient
    \/ DoDeleteClient
    \/ DoFindNearby
    \/ DoMutatePosition

SpecMut == Init /\ [][NextMut]_vars

----------------------------------------------------------------------------
\* Vocabulary of the properties

\* The record has a cached range.
Registered(id) == id \in DOMAIN heap /\ ~NoIndices(heap[id])

\* The object id is itself an element of the bucket of key.
InBucket(id, key) == key \in DOMAIN cell_map /\ \E e \in cell_map[key] : e.obj = id

\* The object id is an element of no bucket.
InNoBucket(id) == \A key \in DOMAIN cell_map : ~InBucket(id, key)

\* The cells of an inclusive range, and their keys.
RangeCells(rng) == { CellLoop(rng)[i] : i \in DOMAIN CellLoop(rng) }
RangeKeys(rng) == { get_cell_key(c[1], c[2]) : c \in RangeCells(rng) }

\* The cell range of a search window on this grid.
QueryRange(position, dims) == get_cell_range(bounds, dimensions, position, dims)

\* The objects find_nearby(position, dims) returns in the current state.
Nearby(position, dims) ==
    find_nearby(cell_map, heap, bounds, dimensions, position, dims)

\* The objects in the list the last find_nearby call returned.
Returned == { call.result[i] : i \in DOMAIN call.result }

\* The last call was op on a record that had a cached range on entry.
CalledOnRegistered(op) ==
    call.op = op /\ Len(call.pre) = 1 /\ ~NoIndices(call.pre[1])

\* The last call was op on a record that had no cached range on entry.
CalledOnUnregistered(op) ==
    call.op = op /\ Len(call.pre) = 1 /\ NoIndices(call.pre[1])

----------------------------------------------------------------------------
\* C1: every record with a cached range is itself an element of the bucket
\* of every cell of that range and of no bucket outside it, and a record
\* without a cached range is in no bucket.
C1_MembershipMatchesRange ==
    \A id \in DOMAIN heap :
        IF NoIndices(heap[id]) THEN InNoBucket(id)
        ELSE /\ \A key \in RangeKeys(heap[id].indices) : InBucket(id, key)
             /\ \A key \in DOMAIN cell_map \ RangeKeys(heap[id].indices) :
                    ~InBucket(id, key)

\* C2: for every registered record O, find_nearby(O.position, O.dimensions)
\* returns a list that contains O.
C2_SelfQueryFindsRecord ==
    \A id \in DOMAIN heap :
        Registered(id) => id \in Nearby(heap[id].position, heap[id].dimensions)

\* C3: every record find_nearby returns is currently registered and its
\* cached cell range meets the cell range of the search window; a
\* registered record whose range is disjoint from it is never returned.
C3_ReturnedRecordsMeetQuery ==
    /\ \A p \in PosSet, d \in WindowSet : \A id \in Nearby(p, d) :
          /\ Registered(id)
          /\ RangeCells(heap[id].indices) \cap RangeCells(QueryRange(p, d)) # {}
    /\ (call.op = "find_nearby" /\ call.raised = "") =>
          \A id \in Returned :
             /\ Registered(id)
             /\ RangeCells(heap[id].indices)
                   \cap RangeCells(QueryRange(call.position, call.dimensions)) # {}

\* A search returned one record and left out a registered one whose range
\* is disjoint from the window's.
C3_Witness ==
    /\ call.op = "find_nearby"
    /\ Returned # {}
    /\ \E id \in DOMAIN heap :
          /\ Registered(id)
          /\ id \notin Returned
          /\ RangeCells(heap[id].indices)
                \cap RangeCells(QueryRange(call.position, call.dimensions)) = {}

\* C4: after update_client(c, p2) on a registered record c, for a window whose
\* cell range at c's old position is disjoint from c's cell range at p2,
\* find_nearby(old position, window) does not contain c and
\* find_nearby(p2, window) contains c.
C4_UpdateMovesMembership ==
    (CalledOnRegistered("update_client") /\ call.raised = "") =>
        \A w \in WindowSet :
            RangeCells(QueryRange(call.pre[1].position, w))
                \cap RangeCells(QueryRange(call.position, call.dimensions)) = {}
            => /\ call.client \notin Nearby(call.pre[1].position, w)
               /\ call.client \in Nearby(call.position, w)

\* C5: after delete_client(c) on a registered record c, and for as long as c
\* has no cached range, c is in no bucket and no find_nearby returns it.
C5_DeletedRecordIsGone ==
    /\ call.op = "delete_client" => NoIndices(heap[call.client])
    /\ \A id \in DOMAIN heap :
          NoIndices(heap[id]) =>
             /\ InNoBucket(id)
             /\ \A p \in PosSet, d \in WindowSet : id \notin Nearby(p, d)
    /\ call.op = "find_nearby" => \A id \in Returned : ~NoIndices(heap[id])

\* A registered record was deleted while an equal record of another name
\* stays in the buckets it shared with it.
C5_Witness ==
    /\ CalledOnRegistered("delete_client")
    /\ \E id \in DOMAIN heap :
          /\ id # call.client
          /\ Registered(id)
          /\ ClientEq(heap[id], heap[call.client])
          /\ \A key \in RangeKeys(call.pre[1].indices) : InBucket(id, key)

\* C6: delete_client on a record without a cached range (deleted before, or
\* never inserted) raises nothing and leaves cell_map and every record
\* unchanged, so a second delete_client of a record changes nothing.
C6_DeleteUnregisteredIsNoOp ==
    [][\A id \in DOMAIN heap :
          (NoIndices(heap[id]) /\ call'.op = "delete_client" /\ call'.client = id)
          => (cell_map' = cell_map /\ heap' = heap /\ call'.raised = "")]_vars

\* delete_client was called on a record without a cached range while another
\* record of the same position, dimensions and name sits in the buckets.
C6_Witness ==
    /\ CalledOnUnregistered("delete_client")
    /\ \E id \in DOMAIN heap :
          /\ id # call.client
          /\ Registered(id)
          /\ ClientHash(heap[id]) = ClientHash(heap[call.client])
          /\ \A key \in RangeKeys(heap[id].indices) : InBucket(id, key)

\* C7: update_client on a record without a cached range is rejected with an
\* error and leaves the record's position and indices as they were; it does
\* not register the record.
C7_UpdateUnregisteredRejected ==
    CalledOnUnregistered("update_client") =>
        /\ call.raised # ""
        /\ heap[call.client].position = call.pre[1].position
        /\ NoIndices(heap[call.client])
        /\ InNoBucket(call.client)

\* Both axes have a positive span and a positive number of cells.
ValidConfig(bds, dms) ==
    /\ bds[1][2] - bds[1][1] > 0
    /\ bds[2][2] - bds[2][1] > 0
    /\ dms[1] > 0
    /\ dms[2] > 0

\* C8: no grid exists whose bounds have a zero or negative span or whose cell
\* count is zero or negative on an axis: its construction fails.
C8_InvalidConfigRejected == constructed => ValidConfig(bounds, dimensions)

\* C9: no key of cell_map maps to an empty set.
C9_NoEmptyBucket == \A key \in DOMAIN cell_map : cell_map[key] # {}

\* delete_client removed the last member of a bucket, and the bucket with
\* it, while other buckets remain.
C9_Witness ==
    /\ CalledOnRegistered("delete_client")
    /\ \E key \in RangeKeys(call.pre[1].indices) : key \notin DOMAIN cell_map
    /\ DOMAIN cell_map # {}

\* C10: once every created record has been deleted, cell_map is the empty
\* mapping and every find_nearby returns the empty list.
C10_NoLeakUnderChurn ==
    (heap # <<>> /\ \A id \in DOMAIN heap : NoIndices(heap[id])) =>
        /\ DOMAIN cell_map = {}
        /\ \A p \in PosSet, d \in WindowSet : Nearby(p, d) = {}
        /\ call.op = "find_nearby" => call.result = <<>>

\* Two records registered at different positions have both been deleted.
C10_Witness ==
    /\ Len(heap) >= 2
    /\ \A id \in DOMAIN heap : NoIndices(heap[id])
    /\ CalledOnRegistered("delete_client")
    /\ \E id \in DOMAIN heap : heap[id].position # heap[call.client].position

\* C11: the list find_nearby returns holds each registered record at most
\* once, and every registered record whose range meets the cell range of the
\* window is one of its entries.
C11_ResultListsEachRecordOnce ==
    (call.op = "find_nearby" /\ call.raised = "") =>
        /\ \A i, j \in DOMAIN call.result :
              call.result[i] = call.result[j] => i = j
        /\ \A id \in DOMAIN heap :
              (/\ Registered(id)
               /\ RangeCells(heap[id].indices)
                     \cap RangeCells(QueryRange(call.position, call.dimensions)) # {})
              => id \in Returned
\* A and B are registered as the example scenario registers them.
ExampleRegistered ==
    /\ Len(heap) >= 2
    /\ heap[1].name = "A" /\ heap[1].position = <<50, 50>>
    /\ heap[1].dimensions = <<10, 10>> /\ Registered(1)
    /\ heap[2].name = "B" /\ heap[2].position = <<10, 10>>
    /\ heap[2].dimensions = <<5, 5>> /\ Registered(2)

\* C12 as claimed: with A and B registered as in the example,
\* find_nearby((22, 22), (10, 10)) returns the empty result.
C12_ExampleQueryEmpty ==
    ExampleRegistered =>
        /\ Nearby(<<22, 22>>, <<10, 10>>) = {}
        /\ (call.op = "find_nearby" /\ call.position = <<22, 22>>)
              => call.result = <<>>

\* C12 as amended: with A and B registered as in the example,
\* find_nearby((22, 22), (10, 10)) returns exactly B, whose cells 0..1 x 0..1
\* meet the window's cells 1..2 x 1..2 in cell 1.1.
C12_ExampleQueryReturnsB ==
    ExampleRegistered =>
        /\ Nearby(<<22, 22>>, <<10, 10>>) = {2}
        /\ heap[2].indices = <<<<0, 0>>, <<1, 1>>>>
        /\ QueryRange(<<22, 22>>, <<10, 10>>) = <<<<1, 1>>, <<2, 2>>>>
        /\ (call.op = "find_nearby" /\ call.position = <<22, 22>>)
              => call.result = <<2>>

\* The example's search at (22, 22) has been made and returned B.
C12_Witness ==
    /\ ExampleRegistered
    /\ call.op = "find_nearby"
    /\ call.position = <<22, 22>>
    /\ call.dimensions = <<10, 10>>
    /\ call.result = <<2>>

\* The range rng spans two adjacent cells on exactly one axis and a single
\* cell on the other: the rectangle crosses exactly one cell boundary line.
CrossesOneBoundary(rng) ==
    \/ rng[2][1] = rng[1][1] + 1 /\ rng[2][2] = rng[1][2]
    \/ rng[2][1] = rng[1][1] /\ rng[2][2] = rng[1][2] + 1

\* C13: a registered record whose rectangle crosses exactly one cell boundary
\* line is in the buckets of both adjacent cells, and every find_nearby whose
\* cell range contains either of the two cells returns it.
C13_BoundaryCrossingInBothCells ==
    \A id \in DOMAIN heap :
        (Registered(id) /\ CrossesOneBoundary(heap[id].indices)) =>
            /\ \A key \in RangeKeys(heap[id].indices) : InBucket(id, key)
            /\ \A p \in PosSet, d \in WindowSet :
                  (RangeCells(QueryRange(p, d))
                      \cap RangeCells(heap[id].indices) # {})
                  => id \in Nearby(p, d)
            /\ (/\ call.op = "find_nearby"
                /\ call.raised = ""
                /\ RangeCells(QueryRange(call.position, call.dimensions))
                      \cap RangeCells(heap[id].indices) # {})
               => id \in Returned

\* The edge (sign = -1 low, 1 high) of the extent d around centre p on axis a
\* of this grid, in units of half a coordinate and scaled by the cell count,
\* and the same for the boundary line bounds_min + k * cell_size.
ScaledEdge(p, d, sign, a) == (2 * p[a] + sign * d[a] - 2 * bounds[a][1]) * dimensions[a]
ScaledBoundary(k, a) == k * 2 * (bounds[a][2] - bounds[a][1])
BoundarySet == -4 .. 10

\* The record id is in the bucket of some cell whose coordinate on axis a is k.
InCellOnAxis(id, a, k) ==
    \E c \in RangeCells(<<<<-5, -5>>, <<10, 10>>>>) :
        c[a] = k /\ InBucket(id, get_cell_key(c[1], c[2]))

\* C14 as claimed: a registered record with an edge (or, at extent zero, its
\* centre) exactly on the boundary line k of an axis is in buckets of both
\* cells adjacent to the line, k - 1 and k.
C14_BoundaryInBothCells ==
    \A id \in DOMAIN heap : \A a \in {1, 2}, sign \in {-1, 1}, k \in BoundarySet :
        (/\ Registered(id)
         /\ ScaledEdge(heap[id].position, heap[id].dimensions, sign, a)
               = ScaledBoundary(k, a))
        => InCellOnAxis(id, a, k - 1) /\ InCellOnAxis(id, a, k)

\* C14 as amended: a registered record with an edge or its centre exactly on
\* the boundary line k of an axis is in a bucket of cell k, the cell above the
\* line; it is in a bucket of cell k - 1 exactly when its low edge on that
\* axis lies strictly below the line. get_cell_range returns the same cells.
C14_BoundaryInUpperCell ==
    /\ \A id \in DOMAIN heap : \A a \in {1, 2}, sign \in {-1, 1}, k \in BoundarySet :
          (/\ Registered(id)
           /\ ScaledEdge(heap[id].position, heap[id].dimensions, sign, a)
                 = ScaledBoundary(k, a))
          => /\ InCellOnAxis(id, a, k)
             /\ InCellOnAxis(id, a, k - 1)
                   <=> ScaledEdge(heap[id].position, heap[id].dimensions, -1, a)
                          < ScaledBoundary(k, a)
    /\ \A a \in {1, 2}, sign \in {-1, 1}, k \in BoundarySet :
          (/\ call.op = "get_cell_range"
           /\ ScaledEdge(call.position, call.dimensions, sign, a)
                 = ScaledBoundary(k, a))
          => /\ call.result[1][a] <= k /\ k <= call.result[2][a]
             /\ call.result[1][a] <= k - 1
                   <=> ScaledEdge(call.position, call.dimensions, -1, a)
                          < ScaledBoundary(k, a)

\* A zero-size record whose centre is on a boundary line of the x axis is
\* registered, and it is in one cell of that axis only.
C14_Witness ==
    \E id \in DOMAIN heap : \E k \in BoundarySet :
        /\ Registered(id)
        /\ heap[id].dimensions[1] = 0
        /\ ScaledEdge(heap[id].position, heap[id].dimensions, 1, 1)
              = ScaledBoundary(k, 1)
        /\ InCellOnAxis(id, 1, k)
        /\ ~InCellOnAxis(id, 1, k - 1)

\* C15: two Client records compare equal exactly when they have the same
\* position and the same dimensions; their names play no part.
C15_EqualityIgnoresName ==
    \A i, j \in DOMAIN heap :
        /\ (heap[i].position = heap[j].position
              /\ heap[i].dimensions = heap[j].dimensions)
           => ClientEq(heap[i], heap[j])
        /\ (heap[i].position # heap[j].position
              \/ heap[i].dimensions # heap[j].dimensions)
           => ~ClientEq(heap[i], heap[j])

\* Two records of different names and the same position and dimensions exist
\* and compare equal.
C15_Witness ==
    \E i, j \in DOMAIN heap :
        /\ heap[i].name # heap[j].name
        /\ heap[i].position = heap[j].position
        /\ heap[i].dimensions = heap[j].dimensions
        /\ ClientEq(heap[i], heap[j])

\* q is the mathematical floor of the edge's offset from bounds_min divided by
\* the cell size on axis a: the edge lies in [q, q + 1) cell sizes.
IsFloorCell(q, p, d, sign, a) ==
    /\ ScaledBoundary(q, a) <= ScaledEdge(p, d, sign, a)
    /\ ScaledEdge(p, d, sign, a) < ScaledBoundary(q + 1, a)

\* C16: on each axis get_cell_range returns as min cell the floor of
\* (centre - extent / 2 - bounds_min) / cell_size and as max cell the floor of
\* (centre + extent / 2 - bounds_min) / cell_size, mathematical floor also below
\* bounds_min, and min cell <= max cell for an extent >= 0. The range cached on
\* a registered record is that range.
C16_RangeIsFloorOfEdges ==
    /\ call.op = "get_cell_range" =>
          \A a \in {1, 2} :
              /\ IsFloorCell(call.result[1][a], call.position, call.dimensions, -1, a)
              /\ IsFloorCell(call.result[2][a], call.position, call.dimensions, 1, a)
              /\ call.result[1][a] <= call.result[2][a]
    /\ \A id \in DOMAIN heap : Registered(id) =>
          \A a \in {1, 2} :
              /\ IsFloorCell(heap[id].indices[1][a], heap[id].position,
                             heap[id].dimensions, -1, a)
              /\ IsFloorCell(heap[id].indices[2][a], heap[id].position,
                             heap[id].dimensions, 1, a)
              /\ heap[id].indices[1][a] <= heap[id].indices[2][a]

\* get_cell_range was called with a low edge less than one cell below
\* bounds_min on the x axis, and returned cell -1 for it.
C16_Witness ==
    /\ call.op = "get_cell_range"
    /\ ScaledEdge(call.position, call.dimensions, -1, 1) < 0
    /\ ScaledEdge(call.position, call.dimensions, -1, 1) > ScaledBoundary(-1, 1)
    /\ call.result[1][1] = -1

\* C17: delete_client on a registered record, whatever the caller has assigned
\* to its position since it was inserted, removes the record from every bucket
\* of its cached range, leaves no empty bucket, and leaves the record in no
\* bucket of cell_map.
C17_DeleteUsesCachedRange ==
    CalledOnRegistered("delete_client") =>
        /\ \A key \in RangeKeys(call.pre[1].indices) : ~InBucket(call.client, key)
        /\ \A key \in DOMAIN cell_map : cell_map[key] # {}
        /\ InNoBucket(call.client)
        /\ NoIndices(heap[call.client])

\* The keys of the buckets of cell map cm that contain the object id.
BucketsOf(cm, id) == { key \in DOMAIN cm : \E e \in cm[key] : e.obj = id }

\* C18: a new_client, update_client or delete_client call on one record
\* changes neither the cached range of any other registered record nor the
\* set of buckets that contain it.
C18_OtherRecordsUntouched ==
    [][ call'.op \in {"new_client", "update_client", "delete_client"} =>
          \A b \in DOMAIN heap :
              (Registered(b) /\ b # call'.client) =>
                  /\ heap'[b].indices = heap[b].indices
                  /\ BucketsOf(cell_map', b) = BucketsOf(cell_map, b) ]_vars

\* C19: any two Client records that compare equal have the same hash.
C19_EqualImpliesSameHash ==
    \A i, j \in DOMAIN heap :
        ClientEq(heap[i], heap[j]) => ClientHash(heap[i]) = ClientHash(heap[j])

\* The cell map and heap that delete_client(id) followed by registering id
\* afresh at position p leave, starting from cell map cm and heap hp.
DeleteThenRegister(cm, hp, id, p) ==
    LET d == delete_client(cm, hp, id)
    IN  insert_client(d.cell_map, [d.heap EXCEPT ![id].position = p], id,
                      bounds, dimensions)

\* C20: after every new_client, update_client and delete_client call each
\* registered record's cached range is get_cell_range of its current position
\* and dimensions, and update_client(c, p) leaves the cell map and the records
\* that delete_client(c) followed by registering c afresh at p leaves.
C20_UpdateIsDeleteThenRegister ==
    [][ /\ \A id \in DOMAIN heap' :
              ~NoIndices(heap'[id]) =>
                  heap'[id].indices
                      = get_cell_range(bounds', dimensions',
                                       heap'[id].position, heap'[id].dimensions)
        /\ (call'.op = "update_client" /\ call'.raised = "") =>
              /\ cell_map'
                    = DeleteThenRegister(cell_map, heap, call'.client,
                                         call'.position).cell_map
              /\ heap'
                    = DeleteThenRegister(cell_map, heap, call'.client,
                                         call'.position).heap ]_vars

\* update_client has moved a registered record to another position while a
\* second record stays registered.
C20_Witness ==
    /\ CalledOnRegistered("update_client")
    /\ call.pre[1].position # call.position
    /\ Registered(call.client)
    /\ heap[call.client].position = call.position
    /\ \E b \in DOMAIN heap : b # call.client /\ Registered(b)

====
